---- MODULE Spec2Model ----
(***************************************************************************)
(* Model of hidropy/meteodays/meteodays.py: date2doy and event2time.       *)
(*                                                                         *)
(* Representation.  A doytime value (day of year + fraction of a day) is   *)
(* the record [doy, sec]: the integer part and the fraction expressed in   *)
(* whole seconds (fraction = sec / 86400).  A datetime is [ord, sec]: the  *)
(* proleptic Gregorian ordinal of the date and the second of the day.      *)
(* Event values are integers; a quotient processedY/counter is kept exact  *)
(* as the record [num, den].  Python indices are 0-based, so X[j] of the   *)
(* source is X[j + 1] here.                                                *)
(***************************************************************************)
EXTENDS Integers, Sequences, FiniteSets, TLC

VARIABLES
    yyyy, doytime, X, methodArg, intervalArg,   \* arguments of event2time
    method, interval,                           \* normalised arguments
    startdate, enddate, intervaldate, checkdate,
    i, j, counter, processedY,
    YEAR, DECTIME, Y,                           \* output lists
    hist,                                       \* per emitted row: boundary, j, sum and count
    dd, mm, dyyyy, n, doy, di,                  \* date2doy: arguments, size, result, loop index
    pc

evars == <<yyyy, doytime, X, methodArg, intervalArg, method, interval,
           startdate, enddate, intervaldate, checkdate, i, j, counter,
           processedY, YEAR, DECTIME, Y, hist>>
dvars == <<dd, mm, dyyyy, n, doy, di>>
vars == <<evars, dvars, pc>>

----------------------------------------------------------------------------
(* Bounds of the model *)
MaxEvents == 3      \* longest event record
MaxRows == 6        \* the record spans at most MaxRows intervals
MaxGrid == 4        \* longest equidistant record
MaxArr == 3         \* longest date2doy array

(* Program constants *)
DaySeconds == 86400
DefaultInterval == 1800
Missing == -9999

----------------------------------------------------------------------------
(* datetime / timedelta of the Python standard library *)

CalYears == 2006 .. 2010

DaysBeforeYear(y) ==
    LET p == y - 1 IN p * 365 + (p \div 4) - (p \div 100) + (p \div 400)

\* datetime.datetime(year, 1, 1, 0, 0, 0) + datetime.timedelta(days, seconds)
DateTime(year, days, seconds) ==
    [ord |-> DaysBeforeYear(year) + 1 + days + (seconds \div DaySeconds),
     sec |-> seconds % DaySeconds]

\* dt + datetime.timedelta(seconds = s)
AddSeconds(dt, s) ==
    [ord |-> dt.ord + ((dt.sec + s) \div DaySeconds),
     sec |-> (dt.sec + s) % DaySeconds]

\* a < b on datetimes
Before(a, b) == a.ord < b.ord \/ (a.ord = b.ord /\ a.sec < b.sec)

\* dt.year
YearOf(dt) ==
    CHOOSE y \in CalYears :
        DaysBeforeYear(y) < dt.ord /\ dt.ord <= DaysBeforeYear(y + 1)

\* int(dt.strftime("%j"))
DoyOf(dt) == dt.ord - DaysBeforeYear(YearOf(dt))

\* (a - b).total_seconds()
Diff(a, b) == (a.ord - b.ord) * DaySeconds + (a.sec - b.sec)

----------------------------------------------------------------------------
(* event2time: argument normalisation and boundary computation *)

NormMethod(m) == IF m # "sum" /\ m # "avg" THEN "sum" ELSE m

\* <<>> stands for interval=None
DefaultIfNone(iv) == IF iv = <<>> THEN DefaultInterval ELSE iv[1]

ClampInterval84600(iv) == IF iv > 86400 THEN 84600 ELSE iv
ClampInterval(iv) == IF iv > 86400 THEN 86400 ELSE iv

NormInterval(iv) == ClampInterval(DefaultIfNone(iv))

\* checkdate of event k (0-based)
EventDate(k) ==
    DateTime(yyyy[k + 1], doytime[k + 1].doy - 1, doytime[k + 1].sec)

StartTime(iv) ==
    LET startsecond == doytime[1].sec
        floored == (startsecond \div iv) * iv
        advanced == IF iv < 86400 THEN floored + iv ELSE floored
    IN  IF advanced > 86400 THEN 86400 ELSE advanced

\* start = starttime / 86400 + floor(doytime[0])
StartDate(iv) ==
    LET start == [doy |-> doytime[1].doy + (StartTime(iv) \div DaySeconds),
                  sec |-> StartTime(iv) % DaySeconds]
    IN  DateTime(yyyy[1], start.doy - 1, start.sec)

EndTime(iv) ==
    LET endsecond == doytime[Len(doytime)].sec
    IN  (endsecond \div iv) * iv

EndDate(iv) ==
    LET end == [doy |-> doytime[Len(doytime)].doy + (EndTime(iv) \div DaySeconds),
                sec |-> EndTime(iv) % DaySeconds]
    IN  DateTime(yyyy[Len(yyyy)], end.doy - 1, end.sec)

\* while intervaldate < enddate
LoopTest(idate, edate) == Before(idate, edate)

\* while checkdate < intervaldate
InnerTestLe(cdate, idate) == Before(cdate, idate) \/ cdate = idate
InnerTest(cdate, idate) == Before(cdate, idate)

\* doy.decimaltime of an output row
RowDtimeDayOnly(idate, iv) ==
    IF iv = 86400 THEN [doy |-> DoyOf(idate) - 1, sec |-> 0]
    ELSE [doy |-> DoyOf(idate), sec |-> 0]
RowDtimeNoDayFix(idate, iv) == [doy |-> DoyOf(idate), sec |-> idate.sec]
RowDtime(idate, iv) ==
    LET dtime == [doy |-> DoyOf(idate), sec |-> idate.sec]
    IN  IF iv = 86400 THEN [dtime EXCEPT !.doy = dtime.doy - 1] ELSE dtime

\* the value appended to Y
AggregateNoGuard(m, acc, cnt) ==
    IF m = "sum" THEN acc ELSE [num |-> acc, den |-> cnt]
Aggregate(m, acc, cnt) ==
    IF m = "sum" THEN acc
    ELSE IF cnt = 0 THEN [num |-> Missing, den |-> 1]
         ELSE [num |-> acc, den |-> cnt]

----------------------------------------------------------------------------
(* event2time, one step at a time *)

Normalize ==
    /\ pc = "start"
    /\ method' = NormMethod(methodArg)
    /\ interval' = NormInterval(intervalArg)
    /\ pc' = "bounds"
    /\ UNCHANGED <<yyyy, doytime, X, methodArg, intervalArg, startdate,
                   enddate, intervaldate, checkdate, i, j, counter,
                   processedY, YEAR, DECTIME, Y, hist, dvars>>

Boundaries ==
    /\ pc = "bounds"
    /\ startdate' = StartDate(interval)
    /\ enddate' = EndDate(interval)
    /\ YEAR' = <<>> /\ DECTIME' = <<>> /\ Y' = <<>>
    /\ intervaldate' = StartDate(interval)
    /\ i' = 0 /\ j' = 0 /\ counter' = 0
    /\ processedY' = 0
    /\ pc' = "outer"
    /\ UNCHANGED <<yyyy, doytime, X, methodArg, intervalArg, method,
                   interval, checkdate, hist, dvars>>

OuterLoop ==
    /\ pc = "outer"
    /\ LoopTest(intervaldate, enddate)
    /\ i' = i + 1
    /\ checkdate' = EventDate(j)
    /\ intervaldate' = AddSeconds(intervaldate, interval)
    /\ pc' = "inner"
    /\ UNCHANGED <<yyyy, doytime, X, methodArg, intervalArg, method,
                   interval, startdate, enddate, j, counter, processedY,
                   YEAR, DECTIME, Y, hist, dvars>>

\* One iteration of the inner loop.  yyyy[j] after the increment raises
\* IndexError when j has reached the length of the input.
Consume ==
    /\ pc = "inner"
    /\ InnerTest(checkdate, intervaldate)
    /\ counter' = counter + 1
    /\ j' = j + 1
    /\ IF j + 1 >= Len(yyyy)
       THEN /\ pc' = "IndexError"
            /\ UNCHANGED <<checkdate, processedY>>
       ELSE /\ checkdate' = EventDate(j + 1)
            /\ processedY' = processedY + X[(j + 1) + 1]
            /\ pc' = "inner"
    /\ UNCHANGED <<yyyy, doytime, X, methodArg, intervalArg, method,
                   interval, startdate, enddate, intervaldate, i,
                   YEAR, DECTIME, Y, hist, dvars>>

Emit ==
    /\ pc = "inner"
    /\ ~InnerTest(checkdate, intervaldate)
    /\ YEAR' = Append(YEAR, YearOf(intervaldate))
    /\ DECTIME' = Append(DECTIME, RowDtime(intervaldate, interval))
    /\ Y' = Append(Y, Aggregate(method, processedY, counter))
    /\ hist' = Append(hist, [at |-> intervaldate, upto |-> j,
                             acc |-> processedY, count |-> counter])
    /\ processedY' = 0
    /\ counter' = 0
    /\ pc' = "outer"
    /\ UNCHANGED <<yyyy, doytime, X, methodArg, intervalArg, method,
                   interval, startdate, enddate, intervaldate, checkdate,
                   i, j, dvars>>

Return ==
    /\ pc = "outer"
    /\ ~LoopTest(intervaldate, enddate)
    /\ pc' = "done"
    /\ UNCHANGED <<evars, dvars>>

----------------------------------------------------------------------------
(* event2time as one function of its arguments (the same helpers, the      *)
(* loops unrolled by recursion); err is TRUE when IndexError is raised.    *)

RECURSIVE InnerLoop(_, _, _, _)
InnerLoop(idate, jj, cnt, acc) ==
    IF jj >= Len(yyyy) THEN [err |-> TRUE, j |-> jj, cnt |-> cnt, acc |-> acc]
    ELSE IF InnerTest(EventDate(jj), idate)
         THEN IF jj + 1 >= Len(yyyy)
              THEN [err |-> TRUE, j |-> jj + 1, cnt |-> cnt + 1, acc |-> acc]
              ELSE InnerLoop(idate, jj + 1, cnt + 1, acc + X[(jj + 1) + 1])
         ELSE [err |-> FALSE, j |-> jj, cnt |-> cnt, acc |-> acc]

RECURSIVE Sweep(_, _, _, _, _)
Sweep(m, iv, idate, jj, out) ==
    IF ~LoopTest(idate, EndDate(iv)) THEN out
    ELSE LET next == AddSeconds(idate, iv)
             r == InnerLoop(next, jj, 0, 0)
         IN  IF r.err THEN [out EXCEPT !.err = TRUE]
             ELSE Sweep(m, iv, next, r.j,
                        [err |-> FALSE,
                         YEAR |-> Append(out.YEAR, YearOf(next)),
                         DECTIME |-> Append(out.DECTIME, RowDtime(next, iv)),
                         Y |-> Append(out.Y, Aggregate(m, r.acc, r.cnt))])

Event2Time(m, ivArg) ==
    Sweep(NormMethod(m), NormInterval(ivArg), StartDate(NormInterval(ivArg)), 0,
          [err |-> FALSE, YEAR |-> <<>>, DECTIME |-> <<>>, Y |-> <<>>])

----------------------------------------------------------------------------
(* Inputs of event2time *)

Stamps == [year : {2007}, doy : {365}, sec : {0, 5400, 60000}]
          \cup [year : {2008}, doy : {1, 2}, sec : {0, 43200}]
Values == {0, 2, Missing}
Methods == {"sum", "avg", "mean"}
Intervals == {<<>>, <<21600>>, <<50000>>, <<86400>>, <<999999>>}

StampDate(s) == DateTime(s.year, s.doy - 1, s.sec)

NonDecreasing(ev) ==
    \A k \in 1 .. Len(ev) - 1 : ~Before(StampDate(ev[k + 1]), StampDate(ev[k]))

IdleDate == [ord |-> 0, sec |-> 0]

EInitWith(ev, xs, m, iv) ==
    /\ yyyy = [k \in 1 .. Len(ev) |-> ev[k].year]
    /\ doytime = [k \in 1 .. Len(ev) |-> [doy |-> ev[k].doy, sec |-> ev[k].sec]]
    /\ X = xs
    /\ methodArg = m
    /\ intervalArg = iv
    /\ method = m
    /\ interval = 0
    /\ startdate = IdleDate /\ enddate = IdleDate
    /\ intervaldate = IdleDate /\ checkdate = IdleDate
    /\ i = 0 /\ j = 0 /\ counter = 0 /\ processedY = 0
    /\ YEAR = <<>> /\ DECTIME = <<>> /\ Y = <<>>
    /\ hist = <<>>

DIdle ==
    /\ dd = <<>> /\ mm = <<>> /\ dyyyy = <<>>
    /\ n = 0 /\ doy = 0 /\ di = 0

Init ==
    /\ \E len \in 1 .. MaxEvents :
         \E ev \in [1 .. len -> Stamps], xs \in [1 .. len -> Values],
            m \in Methods, iv \in Intervals :
            /\ NonDecreasing(ev)
            /\ Diff(StampDate(ev[len]), StampDate(ev[1])) <= MaxRows * NormInterval(iv)
            /\ EInitWith(ev, xs, m, iv)
    /\ DIdle
    /\ pc = "start"

Next == Normalize \/ Boundaries \/ OuterLoop \/ Consume \/ Emit \/ Return

Spec == Init /\ [][Next]_vars

----------------------------------------------------------------------------
(* Equidistant inputs: one event on every grid boundary first + k*iv, for  *)
(* an interval iv that divides 86400.                                      *)

GridIntervals == {21600, 43200, 86400}
GridStarts == [year : {2007}, doy : {365}, sec : {0, 43200}]
GridValues == {0, 2, 5}

GridStamp(first, iv, k) ==
    LET dt == AddSeconds(StampDate(first), k * iv)
    IN  [year |-> YearOf(dt), doy |-> DoyOf(dt), sec |-> dt.sec]

InitGrid ==
    /\ \E len \in 1 .. MaxGrid :
         \E first \in GridStarts, iv \in GridIntervals,
            xs \in [1 .. len -> GridValues], m \in {"sum", "avg"} :
            /\ first.sec % iv = 0
            /\ EInitWith([k \in 1 .. len |-> GridStamp(first, iv, k - 1)],
                         xs, m, <<iv>>)
    /\ DIdle
    /\ pc = "start"

SpecGrid == InitGrid /\ [][Next]_vars

----------------------------------------------------------------------------
(* date2doy *)

LeapTestNoCentury(y) == y % 4 = 0
LeapTest(y) == (y % 4 = 0 /\ y % 100 # 0) \/ y % 400 = 0

\* the body shared by the scalar branch and by one iteration of the array branch
DoyOfDate(d, m, y) ==
    LET raw == ((275 * m) \div 9) - 30 + d - 2
        early == IF m < 3 THEN raw + 2 ELSE raw
    IN  IF LeapTest(y) /\ m > 2 THEN early + 1 ELSE early

Date2doyScalar ==
    /\ pc = "date2doy"
    /\ n < 2
    /\ doy' = DoyOfDate(dd[1], mm[1], dyyyy[1])
    /\ pc' = "returned"
    /\ UNCHANGED <<evars, dd, mm, dyyyy, n, di>>

Date2doyArray ==
    /\ pc = "date2doy"
    /\ ~(n < 2)
    /\ doy' = [k \in 1 .. n |-> 0]
    /\ di' = 0
    /\ pc' = "array"
    /\ UNCHANGED <<evars, dd, mm, dyyyy, n>>

Date2doyElement ==
    /\ pc = "array"
    /\ di < n
    /\ doy' = [doy EXCEPT ![di + 1] = DoyOfDate(dd[di + 1], mm[di + 1], dyyyy[di + 1])]
    /\ di' = di + 1
    /\ UNCHANGED <<evars, dd, mm, dyyyy, n, pc>>

Date2doyReturn ==
    /\ pc = "array"
    /\ ~(di < n)
    /\ pc' = "returned"
    /\ UNCHANGED <<evars, dvars>>

(* Inputs of date2doy: valid Gregorian dates *)
DoyYears == {1900, 2000, 2006, 2007, 2008, 2009, 2100}
ArrayYears == {2007, 2008, 2009}
ArrayMonths == {1, 2, 3}
ArrayDays == {10}

MonthLength(m, y) ==
    IF m = 2 THEN (IF (y % 4 = 0 /\ y % 100 # 0) \/ y % 400 = 0 THEN 29 ELSE 28)
    ELSE IF m \in {4, 6, 9, 11} THEN 30 ELSE 31

ValidDates(ys, ms, ds) ==
    {t \in [d : ds, m : ms, y : ys] : t.d <= MonthLength(t.m, t.y)}

EIdle == EInitWith(<<>>, <<>>, "sum", <<>>)

InitDoy ==
    /\ \/ \E t \in ValidDates(DoyYears, 1 .. 12, 1 .. 31) :
            /\ dd = <<t.d>> /\ mm = <<t.m>> /\ dyyyy = <<t.y>>
            /\ n = 1
       \/ \E len \in 2 .. MaxArr :
            \E ts \in [1 .. len -> ValidDates(ArrayYears, ArrayMonths, ArrayDays)] :
                /\ dd = [k \in 1 .. len |-> ts[k].d]
                /\ mm = [k \in 1 .. len |-> ts[k].m]
                /\ dyyyy = [k \in 1 .. len |-> ts[k].y]
                /\ n = len
    /\ doy = 0 /\ di = 0
    /\ EIdle
    /\ pc = "date2doy"

NextDoy == Date2doyScalar \/ Date2doyArray \/ Date2doyElement \/ Date2doyReturn

SpecDoy == InitDoy /\ [][NextDoy]_vars

----------------------------------------------------------------------------
(* Vocabulary of the properties *)

Rows == 1 .. Len(hist)
Events == 0 .. Len(yyyy) - 1

\* the events (0-based) consumed by the inner loop for row r
Consumed(r) == (IF r = 1 THEN 0 ELSE hist[r - 1].upto) .. (hist[r].upto - 1)

RECURSIVE SumX(_)
SumX(S) == IF S = {} THEN 0
           ELSE LET k == CHOOSE e \in S : TRUE IN X[k + 1] + SumX(S \ {k})

RECURSIVE SumSeq(_)
SumSeq(q) == IF q = <<>> THEN 0 ELSE Head(q) + SumSeq(Tail(q))

\* the instant a row is labelled with
RowLabelDate(r) == DateTime(YEAR[r], DECTIME[r].doy - 1, DECTIME[r].sec)

\* end = floor(endSeconds / interval) * interval on the last event's day
WindowEnd ==
    LET last == Len(doytime)
    IN  DateTime(yyyy[last], doytime[last].doy - 1,
                 (doytime[last].sec \div interval) * interval)

Swept == pc \in {"outer", "inner", "done", "IndexError"}

\* the aggregate v is the plain value x
IsValue(v, x) == IF method = "sum" THEN v = x ELSE v.num = x * v.den

----------------------------------------------------------------------------
(* C1: for every valid input the event index j is never used to read an    *)
(* event at index >= the input length; the call never fails with an        *)
(* out-of-bounds access.                                                    *)
C1_NoOutOfBounds == pc # "IndexError"

(* C2: in SUM mode the aggregate of every emitted row is the sum of the    *)
(* own values X[k] of exactly the events consumed for that row, which are  *)
(* the not-yet-consumed events strictly before the row's boundary.         *)
C2_SumOfOwnValues ==
    (Swept /\ method = "sum") =>
        \A r \in Rows :
            /\ Y[r] = SumX(Consumed(r))
            /\ Consumed(r) =
                 {k \in Events : /\ k >= (IF r = 1 THEN 0 ELSE hist[r - 1].upto)
                                 /\ Before(EventDate(k), hist[r].at)}

(* C3: conservation in SUM mode: when the sweep has finished, the sum of   *)
(* all emitted aggregates equals the sum of the values of the events with  *)
(* index < final j.                                                         *)
C3_Conservation ==
    (pc = "done" /\ method = "sum") => SumSeq(Y) = SumX(0 .. j - 1)

(* C4, as claimed: rows lie on the grid start + r * interval and every     *)
(* row's boundary t satisfies start < t <= end.                            *)
C4_RowsWithinEnd ==
    Swept =>
        \A r \in Rows :
            /\ hist[r].at = AddSeconds(startdate, r * interval)
            /\ Before(startdate, hist[r].at)
            /\ ~Before(WindowEnd, hist[r].at)

(* C4, amended: rows are strictly ascending, exactly interval apart, one   *)
(* per grid boundary start + r * interval up to the first boundary that is *)
(* not before end; each row is labelled with its boundary (one day earlier *)
(* for a daily interval); start < t < end + interval, and t <= end when    *)
(* the interval divides 86400.                                             *)
C4_RegularGrid ==
    Swept =>
        /\ \A r \in Rows :
            /\ hist[r].at = AddSeconds(startdate, r * interval)
            /\ RowLabelDate(r) = (IF interval = 86400
                                  THEN AddSeconds(hist[r].at, -86400)
                                  ELSE hist[r].at)
            /\ Before(startdate, hist[r].at)
            /\ Diff(hist[r].at, WindowEnd) < interval
            /\ (86400 % interval = 0 => ~Before(WindowEnd, hist[r].at))
            /\ (r > 1 => /\ Before(RowLabelDate(r - 1), RowLabelDate(r))
                         /\ Diff(RowLabelDate(r), RowLabelDate(r - 1)) = interval)
        /\ Len(YEAR) = Len(hist) /\ Len(DECTIME) = Len(hist) /\ Len(Y) = Len(hist)
        /\ pc = "done" =>
             IF hist = <<>> THEN ~Before(startdate, WindowEnd)
             ELSE ~Before(hist[Len(hist)].at, WindowEnd)

C4_Witness ==
    /\ pc = "done" /\ Len(hist) >= 2
    /\ 86400 % interval # 0
    /\ Before(WindowEnd, hist[Len(hist)].at)

(* C5, as claimed: an event earlier than start or at/after end is neither  *)
(* counted in nor has its value added to the aggregate of any row.         *)
C5_OutsideWindowDropped ==
    Swept =>
        \A r \in Rows : \A k \in Consumed(r) :
            /\ ~Before(EventDate(k), startdate) /\ Before(EventDate(k), WindowEnd)
            /\ ~Before(EventDate(k + 1), startdate) /\ Before(EventDate(k + 1), WindowEnd)

(* C5, amended: events are dropped from the count only at the tail.  Every *)
(* event counted in a row lies strictly before that row's boundary (and    *)
(* before end when the interval divides 86400), so no event at or after    *)
(* the last emitted boundary is counted; the events earlier than start are *)
(* not dropped: they are counted in the first emitted row.                 *)
C5_CountedEvents ==
    Swept =>
        /\ \A r \in Rows : \A k \in Consumed(r) :
            /\ Before(EventDate(k), hist[r].at)
            /\ (86400 % interval = 0 => Before(EventDate(k), WindowEnd))
        /\ \A r \in Rows : hist[r].count = Cardinality(Consumed(r))
        /\ hist # <<>> =>
             \A k \in Events : Before(EventDate(k), startdate) => k \in Consumed(1)

C5_Witness ==
    /\ pc = "done" /\ Len(hist) >= 2
    /\ \E k \in Consumed(1) : Before(EventDate(k), startdate)
    /\ \E k \in Events : ~Before(EventDate(k), hist[Len(hist)].at)
    /\ \E k \in Consumed(2) : EventDate(k) = hist[1].at

C7_EmptyBucketPolicy ==
    Swept =>
        \A r \in Rows :
            IF method = "sum"
            THEN hist[r].count = 0 => Y[r] = 0
            ELSE /\ Y[r].den # 0
                 /\ hist[r].count = 0 => Y[r] = [num |-> -9999, den |-> 1]
                 /\ hist[r].count >= 1 =>
                        Y[r] = [num |-> hist[r].acc, den |-> hist[r].count]
                 /\ Y[r].num = -9999 * Y[r].den =>
                        \/ hist[r].count = 0
                        \/ hist[r].acc = -9999 * hist[r].count

C7_Witness ==
    /\ pc = "done" /\ method = "avg"
    /\ \E r \in Rows : hist[r].count = 0 /\ Y[r].num = -9999
    /\ \E r \in Rows : hist[r].count >= 1 /\ Y[r].num = -9999 * Y[r].den

(* C8: every emitted row carries a day of year in 1..366 (value in         *)
(* [1, 367)), also for interval = 86400 where 1 is subtracted.             *)
C8_ValidDayOfYear ==
    \A r \in 1 .. Len(DECTIME) :
        DECTIME[r].doy \in 1 .. 366 /\ DECTIME[r].sec \in 0 .. 86399

(* C9: date2doy returns the Gregorian day-of-year ordinal (days elapsed    *)
(* since 1 January of the year, plus 1) of every valid date, for a single  *)
(* date and elementwise for sequences.                                      *)
RECURSIVE DaysInMonthsBefore(_, _)
DaysInMonthsBefore(m, y) ==
    IF m = 1 THEN 0 ELSE MonthLength(m - 1, y) + DaysInMonthsBefore(m - 1, y)

C9_GregorianOrdinal ==
    pc = "returned" =>
        IF n < 2 THEN doy = dd[1] + DaysInMonthsBefore(mm[1], dyyyy[1])
        ELSE \A k \in 1 .. n : doy[k] = dd[k] + DaysInMonthsBefore(mm[k], dyyyy[k])

C9_Witness ==
    /\ pc = "returned" /\ n = 3
    /\ dd = <<10, 10, 10>> /\ mm = <<1, 2, 3>> /\ dyyyy = <<2007, 2008, 2009>>
    /\ doy = <<10, 41, 69>>

(* C10: for an interval > 86400 the call raises no error and returns       *)
(* exactly the rows of the same call with interval = 86400, one day apart. *)
C10_ClampedIsDaily ==
    (intervalArg # <<>> /\ DefaultIfNone(intervalArg) > 86400) =>
        /\ pc # "IndexError"
        /\ pc = "done" =>
             LET daily == Event2Time(methodArg, <<86400>>)
             IN  /\ ~daily.err
                 /\ YEAR = daily.YEAR /\ DECTIME = daily.DECTIME /\ Y = daily.Y
                 /\ \A r \in 2 .. Len(YEAR) :
                        Diff(RowLabelDate(r), RowLabelDate(r - 1)) = 86400

C10_Witness ==
    /\ pc = "done" /\ intervalArg = <<999999>>
    /\ Len(Y) >= 2 /\ Y[1] # Y[2]

\* the stepwise model and the function agree on every finished call
SweepAgrees ==
    /\ pc = "done" =>
         LET r == Event2Time(methodArg, intervalArg)
         IN  ~r.err /\ YEAR = r.YEAR /\ DECTIME = r.DECTIME /\ Y = r.Y
    /\ pc = "IndexError" => Event2Time(methodArg, intervalArg).err

====
